---------------------------- MODULE Spec2Model ----------------------------
(* A model of quiz-question-retriever: the run of its stages and the       *)
(* caption scan of parseSubtitleFile, in its two variants:                  *)
(*   "multi"  - src/src/index.ts      (window opened by 00:30: .. 00:33:)   *)
(*   "marker" - src/unnamed/part_000  (window opened by a <c.cyan> line     *)
(*              followed by a blank line, after a 00:34: line)              *)
(* A string is a sequence of one-character strings.                         *)
EXTENDS Integers, Sequences, FiniteSets

VARIABLES
  variant,          \* which of the two source files runs
  argv,             \* process.argv[2]; "" when no argument was given
  pc,               \* the stage (or step of parseSubtitleFile) that runs next
  exitCode,         \* the code given to process.exit; NotExited before it
  completed,        \* the stages that have returned, in order
  replayUrl,        \* main's replayUrl
  fsExists,         \* the paths fs.existsSync answers true for
  fsContent,        \* the content of each file
  execLog,          \* the replay URLs the downloader was run with
  inputFileLines,   \* parseSubtitleFile: inputFileLines
  currentIndex,     \* forEach's currentIndex, counted from 1
  parsedContent,    \* parseSubtitleFile: parsedContent; main's parsedSubtitles
  passed34Minutes,  \* parseSubtitleFile (marker variant): passed34Minutes
  startAppending,   \* parseSubtitleFile: startAppending
  chatPrompt,       \* main's chatPrompt
  aiResponse        \* main's aiResponse / llama3Response

vars ==
  <<variant, argv, pc, exitCode, completed, replayUrl, fsExists, fsContent,
    execLog, inputFileLines, currentIndex, parsedContent, passed34Minutes,
    startAppending, chatPrompt, aiResponse>>
envVars == <<variant, argv>>
fsVars == <<fsExists, fsContent>>
scanVars ==
  <<inputFileLines, currentIndex, parsedContent, passed34Minutes,
    startAppending>>
aiVars == <<chatPrompt, aiResponse>>

\* ------------------------------------------------------------------ bounds
\* Longest caption file, in lines, of the parse specification.
MaxLines == 4
\* Longest caption file, in lines, of the whole-run specification.
MaxRunLines == 3

\* ----------------------------------------------------------------- strings
\* JavaScript's white space (String.prototype.trim) and line terminators
\* (the characters "." of a regular expression does not match).
NL == "\n"
WhiteSpace == {" ", "\t", "\r", NL}
LineTerminators == {NL, "\r"}
Digits == {"0", "1", "2", "3", "4", "5", "6", "7", "8", "9"}
\* The "." of a regular expression, as an element of a pattern.
ANY == "ANY"

\* String.prototype.trim
Trim(s) ==
  LET keep == {i \in 1..Len(s) : s[i] \notin WhiteSpace}
  IN  IF keep = {} THEN <<>>
      ELSE LET lo == CHOOSE i \in keep : \A j \in keep : i <= j
               hi == CHOOSE i \in keep : \A j \in keep : j <= i
           IN  SubSeq(s, lo, hi)

\* String.prototype.startsWith
StartsWith(s, p) == Len(p) <= Len(s) /\ SubSeq(s, 1, Len(p)) = p

\* String.prototype.includes
Includes(s, sub) ==
  \E i \in 1..(Len(s) - Len(sub) + 1) : SubSeq(s, i, i + Len(sub) - 1) = sub

\* /^\d+$/.test
IsAllDigits(s) == Len(s) > 0 /\ \A i \in 1..Len(s) : s[i] \in Digits

\* Whether the pattern pat (characters and ANY) matches s at position i.
MatchesAt(s, i, pat) ==
  /\ i + Len(pat) - 1 <= Len(s)
  /\ \A k \in 1..Len(pat) :
       IF pat[k] = ANY THEN s[i + k - 1] \notin LineTerminators
                       ELSE s[i + k - 1] = pat[k]

\* The first alternative of alts that matches s at i, 0 when none does.
FirstAlternative(s, i, alts) ==
  LET hits == {a \in 1..Len(alts) : MatchesAt(s, i, alts[a])}
  IN  IF hits = {} THEN 0 ELSE CHOOSE a \in hits : \A b \in hits : a <= b

\* String.prototype.replace with a global regular expression alts[1]|alts[2]|...
\* and the replacement string repl: one pass from the left, the text put in
\* is not scanned again.
RECURSIVE ReplaceFrom(_, _, _, _)
ReplaceFrom(s, i, alts, repl) ==
  IF i > Len(s) THEN <<>>
  ELSE LET a == FirstAlternative(s, i, alts)
       IN  IF a = 0 THEN <<s[i]>> \o ReplaceFrom(s, i + 1, alts, repl)
           ELSE repl \o ReplaceFrom(s, i + Len(alts[a]), alts, repl)

ReplaceAll(s, alts, repl) == ReplaceFrom(s, 1, alts, repl)

\* String.prototype.split('\n'): always at least one line.
RECURSIVE SplitFrom(_, _, _)
SplitFrom(s, i, cur) ==
  IF i > Len(s) THEN <<cur>>
  ELSE IF s[i] = NL THEN <<cur>> \o SplitFrom(s, i + 1, <<>>)
  ELSE SplitFrom(s, i + 1, Append(cur, s[i]))

SplitLines(s) == SplitFrom(s, 1, <<>>)

\* The content of a file whose lines are ls (Len(ls) >= 1).
RECURSIVE JoinLines(_)
JoinLines(ls) ==
  IF Len(ls) = 1 THEN ls[1] ELSE ls[1] \o <<NL>> \o JoinLines(Tail(ls))

\* -------------------------------------------------------- program constants
SPACE == <<" ">>
ARROW == <<"-", "-", ">">>
PREFIX_0030 == <<"0", "0", ":", "3", "0", ":">>
PREFIX_0031 == <<"0", "0", ":", "3", "1", ":">>
PREFIX_0032 == <<"0", "0", ":", "3", "2", ":">>
PREFIX_0033 == <<"0", "0", ":", "3", "3", ":">>
PREFIX_0034 == <<"0", "0", ":", "3", "4", ":">>
C_CYAN == <<"<", "c", ".", "c", "y", "a", "n", ">">>

\* The markup tokens, as literal strings.
TOKEN_WHITE == <<"<", "c", ".", "w", "h", "i", "t", "e", ">">>
TOKEN_MAGENTA == <<"<", "c", ".", "m", "a", "g", "e", "n", "t", "a", ">">>
TOKEN_RED == <<"<", "c", ".", "r", "e", "d", ">">>
TOKEN_GREEN == <<"<", "c", ".", "g", "r", "e", "e", "n", ">">>
TOKEN_YELLOW == <<"<", "c", ".", "y", "e", "l", "l", "o", "w", ">">>
TOKEN_CLOSE == <<"<", "/", "c", ">">>
MarkupTokens ==
  {TOKEN_WHITE, TOKEN_MAGENTA, TOKEN_RED, TOKEN_GREEN, C_CYAN, TOKEN_YELLOW,
   TOKEN_CLOSE}

\* A literal token as the code writes it in its regular expression: the "."
\* of "<c.white>" is not escaped and matches any character.
AsPattern(tok) == [k \in 1..Len(tok) |-> IF tok[k] = "." THEN ANY ELSE tok[k]]

BOILERPLATE ==
  <<"f", "r", "a", "n", "c", "e", ".", "t", "v", " ",
    "a", "c", "c", "e", "s", "s">>

\* /<c.white>|<c.magenta>|<c.red>|<c.green>|<c.cyan>|<c.yellow>|<\/c>/g
MarkerAlternatives ==
  <<AsPattern(TOKEN_WHITE), AsPattern(TOKEN_MAGENTA), AsPattern(TOKEN_RED),
    AsPattern(TOKEN_GREEN), AsPattern(C_CYAN), AsPattern(TOKEN_YELLOW),
    TOKEN_CLOSE>>

\* /<c.white>|...|<c.yellow>|france.tv access|<\/c>/g
MultiAlternatives ==
  <<AsPattern(TOKEN_WHITE), AsPattern(TOKEN_MAGENTA), AsPattern(TOKEN_RED),
    AsPattern(TOKEN_GREEN), AsPattern(C_CYAN), AsPattern(TOKEN_YELLOW),
    AsPattern(BOILERPLATE), TOKEN_CLOSE>>


\* ------------------------------------------------------------------- paths
OUTPUT_FOLDER == "./output"
REPLAY_DOWNLOAD_FOLDER == "./output/1_qpuc_replay"
REPLAY_SUBTITLE_FILE_PATH == "./output/1_qpuc_replay/qpuc.qsm.vtt"
PARSED_SUBTITLE_FILE_FOLDER == "./output/2_parsed_subtitles"
PARSED_SUBTITLE_FILE_PATH == "./output/2_parsed_subtitles/parsed_vtt.txt"
HUMAN_READABLE_SUBTITLE_FILE_FOLDER == "./output/3_human_readable_subtitles"
HUMAN_READABLE_SUBTITLE_FILE_PATH ==
  "./output/3_human_readable_subtitles/human_readable_subs.txt"
AI_PROMPT_FOLDER == "./output/4_ai_prompt"
AI_PROMPT_FILE_PATH == "./output/4_ai_prompt/prompt.txt"
AI_OUTPUT_FOLDER ==
  IF variant = "multi" THEN "./output/5_ai_output" ELSE "./output/3_ai_output"
AI_OUTPUT_FILE_PATH ==
  IF variant = "multi" THEN "./output/5_ai_output/ai_response.txt"
                       ELSE "./output/3_ai_output/llama3_response.txt"
FilePaths ==
  {REPLAY_SUBTITLE_FILE_PATH, PARSED_SUBTITLE_FILE_PATH,
   HUMAN_READABLE_SUBTITLE_FILE_PATH, AI_PROMPT_FILE_PATH,
   "./output/5_ai_output/ai_response.txt",
   "./output/3_ai_output/llama3_response.txt"}

\* ------------------------------------------------------------ the inputs
Variants == {"multi", "marker"}
NoArg == ""
Urls == {"https://www.france.tv/a", "https://www.france.tv/b"}
Responses == {<<"r">>, <<>>}
NotExited == -1

\* Caption lines: an empty line, a line of white space, a time range at
\* 00:34, a time range at 00:31, a cyan payload, a cue index, a payload
\* starting with a hyphen, a payload with one token inside another, a payload
\* with the broadcaster's text, a line with the cyan token and an arrow.
LINE_BLANK == <<>>
LINE_SPACES == <<" ">>
LINE_RANGE_34 == PREFIX_0034 \o <<"0", " ">> \o ARROW \o <<" ", "1">>
LINE_RANGE_31 == PREFIX_0031 \o <<"0", " ">> \o ARROW \o <<" ", "1">>
LINE_CYAN == C_CYAN \o <<" ", "a">> \o TOKEN_CLOSE
LINE_INDEX == <<"7", " ">>
LINE_TEXT == <<"-", "b">>
LINE_NESTED == <<"<", "c", ".">> \o TOKEN_CLOSE \o <<"c", "y", "a", "n", ">">>
LINE_BOILERPLATE == BOILERPLATE \o <<" ", "c">>
LINE_CYAN_RANGE == C_CYAN \o ARROW

\* The lines a caption file of variant v is made of: those its scan tells
\* apart.
Lines(v) ==
  {LINE_BLANK, LINE_SPACES, LINE_CYAN, LINE_INDEX, LINE_TEXT, LINE_NESTED}
    \cup (IF v = "marker" THEN {LINE_RANGE_34, LINE_CYAN_RANGE}
                          ELSE {LINE_RANGE_31, LINE_BOILERPLATE})

\* The contents of the caption files of at most n lines.
FileContents(v, n) ==
  {JoinLines(ls) : ls \in UNION {[1..k -> Lines(v)] : k \in 1..n}}

\* ------------------------------------------------------------ the stages
StageOrder(v) ==
  IF v = "multi"
  THEN <<"getLatestReplayUrl", "createOutputFolder", "downloadReplayFiles",
         "parseSubtitleFile", "writeHumanReadableSubtitleFile",
         "generateAIPrompt", "callAIModel", "writeAIResponse">>
  ELSE <<"getReplayUrl", "createOutputFolder", "downloadReplayFiles",
         "parseSubtitleFile", "getChatPromptFromParsedSubtitles",
         "callLlama3", "writeAIResponse">>

\* The stage main calls after the n-th one; process.exit(0) after the last.
StageAfter(n) ==
  IF n < Len(StageOrder(variant)) THEN StageOrder(variant)[n + 1]
  ELSE "process.exit(0)"

\* The running stage returns to main, which calls the next one.
Return ==
  /\ completed' = Append(completed, StageOrder(variant)[Len(completed) + 1])
  /\ pc' = StageAfter(Len(completed) + 1)
  /\ UNCHANGED exitCode

\* A catch block that logs and returns: main goes on to the next stage.
FailContinues ==
  /\ pc' = StageAfter(Len(completed) + 1)
  /\ UNCHANGED <<exitCode, completed>>

\* A stage's catch block: process.exit(1).
Fail ==
  /\ pc' = "exited"
  /\ exitCode' = 1
  /\ UNCHANGED completed

\* if (!fs.existsSync(folder)) await fsp.mkdir(folder);
\* await fsp.writeFile(path, content, 'utf-8');
WriteOk(folder, path, content) ==
  /\ fsExists' = fsExists \cup {folder, path}
  /\ fsContent' = [fsContent EXCEPT ![path] = content]
MkdirFails(folder) ==
  /\ folder \notin fsExists
  /\ UNCHANGED fsVars
WriteFileFails(folder) ==
  /\ fsExists' = fsExists \cup {folder}
  /\ UNCHANGED fsContent

\* getReplayUrl (marker variant)
GetReplayUrl ==
  /\ pc = "getReplayUrl"
  /\ IF argv = NoArg
     THEN Fail /\ UNCHANGED replayUrl
     ELSE replayUrl' = argv /\ Return
  /\ UNCHANGED <<envVars, fsVars, execLog, scanVars, aiVars>>

\* getLatestReplayUrl (multi variant): the page is fetched and holds the
\* link, or the fetch fails or the link is missing.
GetLatestReplayUrl ==
  /\ pc = "getLatestReplayUrl"
  /\ \/ \E u \in Urls : replayUrl' = u /\ Return
     \/ Fail /\ UNCHANGED replayUrl
  /\ UNCHANGED <<envVars, fsVars, execLog, scanVars, aiVars>>

CreateOutputFolder ==
  /\ pc = "createOutputFolder"
  /\ \/ OUTPUT_FOLDER \in fsExists /\ UNCHANGED fsVars /\ Return
     \/ /\ OUTPUT_FOLDER \notin fsExists
        /\ fsExists' = fsExists \cup {OUTPUT_FOLDER}
        /\ UNCHANGED fsContent
        /\ Return
     \/ OUTPUT_FOLDER \notin fsExists /\ UNCHANGED fsVars /\ Fail
  /\ UNCHANGED <<envVars, replayUrl, execLog, scanVars, aiVars>>

\* A downloadReplayFiles that never finds the captions file.
AlreadyDownloadedNever == FALSE

\* fs.existsSync(REPLAY_SUBTITLE_FILE_PATH)
AlreadyDownloaded == REPLAY_SUBTITLE_FILE_PATH \in fsExists

\* downloadReplayFiles: the downloader, when run, fails, or ends well
\* having written the captions file, or ends well having written none.
DownloadReplayFiles ==
  /\ pc = "downloadReplayFiles"
  /\ \/ AlreadyDownloaded /\ UNCHANGED <<fsVars, execLog>> /\ Return
     \/ /\ ~AlreadyDownloaded
        /\ execLog' = Append(execLog, replayUrl)
        /\ \/ \E c \in FileContents(variant, MaxRunLines) :
                /\ WriteOk(REPLAY_DOWNLOAD_FOLDER, REPLAY_SUBTITLE_FILE_PATH, c)
                /\ Return
           \/ /\ fsExists' = fsExists \cup {REPLAY_DOWNLOAD_FOLDER}
              /\ UNCHANGED fsContent
              /\ Return
           \/ UNCHANGED fsVars /\ Fail
  /\ UNCHANGED <<envVars, replayUrl, scanVars, aiVars>>

\* parseSubtitleFile, to the start of the forEach: the file is read and split.
ParseRead ==
  /\ pc = "parseSubtitleFile"
  /\ \/ /\ REPLAY_SUBTITLE_FILE_PATH \in fsExists
        /\ inputFileLines' = SplitLines(fsContent[REPLAY_SUBTITLE_FILE_PATH])
        /\ currentIndex' = 1
        /\ parsedContent' = <<>>
        /\ passed34Minutes' = FALSE
        /\ startAppending' = FALSE
        /\ pc' = "forEach"
        /\ UNCHANGED <<exitCode, completed>>
     \/ Fail /\ UNCHANGED scanVars
  /\ UNCHANGED <<envVars, replayUrl, fsVars, execLog, aiVars>>

\* The test of a line without its arrow condition.
QualifiesNoArrow(fileLine) ==
  /\ Trim(fileLine) # <<>>
  /\ ~IsAllDigits(Trim(fileLine))

\* fileLine.trim() !== '' && !fileLine.trim().includes('-->')
\*   && !/^\d+$/.test(fileLine.trim())
Qualifies(fileLine) ==
  /\ Trim(fileLine) # <<>>
  /\ ~Includes(Trim(fileLine), ARROW)
  /\ ~IsAllDigits(Trim(fileLine))

\* `${fileLine.trim().replace(/.../g, '')} `
Fragment(alts, fileLine) == ReplaceAll(Trim(fileLine), alts, <<>>) \o SPACE

\* fileLine.startsWith('00:30:') || ... || fileLine.startsWith('00:33:')
MultiTrigger(fileLine) ==
  \E p \in {PREFIX_0030, PREFIX_0031, PREFIX_0032, PREFIX_0033} :
    StartsWith(fileLine, p)

\* The position after the callback for currentIndex has returned.
AfterLine ==
  IF currentIndex = Len(inputFileLines) THEN "writeParsed" ELSE "forEach"

\* The forEach callback of index.ts, on the line at currentIndex.
ScanLineMulti ==
  /\ pc = "forEach"
  /\ variant = "multi"
  /\ LET fileLine == inputFileLines[currentIndex]
         open == startAppending \/ MultiTrigger(fileLine)
     IN  /\ startAppending' = open
         /\ parsedContent' =
              IF open /\ Qualifies(fileLine)
              THEN parsedContent \o Fragment(MultiAlternatives, fileLine)
              ELSE parsedContent
  /\ currentIndex' = currentIndex + 1
  /\ pc' = AfterLine
  /\ UNCHANGED <<envVars, exitCode, completed, replayUrl, fsVars, execLog,
                 inputFileLines, passed34Minutes, aiVars>>

\* The marker check without its threshold.
LooksAheadNoThreshold(passed, fileLine) == Includes(fileLine, C_CYAN)

\* passed34Minutes && fileLine.includes('<c.cyan>'): the two conditions
\* after which the callback reads originalArray[currentIndex + 1].
LooksAhead(passed, fileLine) == passed /\ Includes(fileLine, C_CYAN)

\* An append test that reads startAppending as it was before the line.
AppendsMarkerStale(passed, open, fileLine) ==
  passed /\ startAppending /\ Qualifies(fileLine)

\* passed34Minutes && startAppending && fileLine.trim() !== '' && ...
AppendsMarker(passed, open, fileLine) ==
  passed /\ open /\ Qualifies(fileLine)

\* The forEach callback of part_000, on the line at currentIndex. Past the
\* last line originalArray[currentIndex + 1] is undefined and .trim() on it
\* throws a TypeError, which the catch block of parseSubtitleFile answers
\* with process.exit(1).
ScanLineMarker ==
  /\ pc = "forEach"
  /\ variant = "marker"
  /\ LET fileLine == inputFileLines[currentIndex]
         passed == passed34Minutes \/ StartsWith(fileLine, PREFIX_0034)
         looks == LooksAhead(passed, fileLine)
     IN  /\ passed34Minutes' = passed
         /\ IF looks /\ currentIndex = Len(inputFileLines)
            THEN /\ Fail
                 /\ UNCHANGED <<startAppending, parsedContent, currentIndex>>
            ELSE LET open ==
                       \/ startAppending
                       \/ looks /\ Trim(inputFileLines[currentIndex + 1]) = <<>>
                 IN  /\ startAppending' = open
                     /\ parsedContent' =
                          IF AppendsMarker(passed, open, fileLine)
                          THEN parsedContent
                                 \o Fragment(MarkerAlternatives, fileLine)
                          ELSE parsedContent
                     /\ currentIndex' = currentIndex + 1
                     /\ pc' = AfterLine
                     /\ UNCHANGED <<exitCode, completed>>
  /\ UNCHANGED <<envVars, replayUrl, fsVars, execLog, inputFileLines, aiVars>>

\* parseSubtitleFile, after the forEach: the transcript is written and returned.
ParseWrite ==
  /\ pc = "writeParsed"
  /\ \/ /\ WriteOk(PARSED_SUBTITLE_FILE_FOLDER, PARSED_SUBTITLE_FILE_PATH,
                   parsedContent)
        /\ Return
     \/ MkdirFails(PARSED_SUBTITLE_FILE_FOLDER) /\ Fail
     \/ WriteFileFails(PARSED_SUBTITLE_FILE_FOLDER) /\ Fail
  /\ UNCHANGED <<envVars, replayUrl, execLog, scanVars, aiVars>>

\* A rewrite that only puts a line break before each space + hyphen.
HumanReadableBreakOnly(content) ==
  ReplaceAll(content, << <<" ", "-">> >>, <<NL, " ", "-">>)

\* content.replace(/ -/g, '\n- ')
HumanReadable(content) ==
  ReplaceAll(content, << <<" ", "-">> >>, <<NL, "-", " ">>)

WriteHumanReadableSubtitleFile ==
  /\ pc = "writeHumanReadableSubtitleFile"
  /\ \/ /\ WriteOk(HUMAN_READABLE_SUBTITLE_FILE_FOLDER,
                   HUMAN_READABLE_SUBTITLE_FILE_PATH,
                   HumanReadable(parsedContent))
        /\ Return
     \/ MkdirFails(HUMAN_READABLE_SUBTITLE_FILE_FOLDER) /\ Fail
     \/ WriteFileFails(HUMAN_READABLE_SUBTITLE_FILE_FOLDER) /\ Fail
  /\ UNCHANGED <<envVars, replayUrl, execLog, scanVars, aiVars>>

\* The prompt: the instructions, then the transcript between two backquote
\* characters (BACKQUOTE stands for the character).
BACKQUOTE == "BACKQUOTE"
Prompt(instructions, parsedSubtitles) ==
  <<instructions, BACKQUOTE>> \o parsedSubtitles \o <<BACKQUOTE>>

GenerateAIPrompt ==
  /\ pc = "generateAIPrompt"
  /\ LET prompt == Prompt("Voici un extrait de sous-titres", parsedContent)
     IN  \/ /\ WriteOk(AI_PROMPT_FOLDER, AI_PROMPT_FILE_PATH, prompt)
            /\ chatPrompt' = prompt
            /\ Return
         \/ MkdirFails(AI_PROMPT_FOLDER) /\ Fail /\ UNCHANGED chatPrompt
         \/ WriteFileFails(AI_PROMPT_FOLDER) /\ Fail /\ UNCHANGED chatPrompt
  /\ UNCHANGED <<envVars, replayUrl, execLog, scanVars, aiResponse>>

GetChatPromptFromParsedSubtitles ==
  /\ pc = "getChatPromptFromParsedSubtitles"
  /\ chatPrompt' = Prompt("J'ai recupere un extrait de sous-titres",
                          parsedContent)
  /\ Return
  /\ UNCHANGED <<envVars, replayUrl, fsVars, execLog, scanVars, aiResponse>>

\* callAIModel (index.ts), callLlama3 (part_000)
CallAIModel ==
  /\ pc \in {"callAIModel", "callLlama3"}
  /\ \/ \E r \in Responses : aiResponse' = r /\ Return
     \/ Fail /\ UNCHANGED aiResponse
  /\ UNCHANGED <<envVars, replayUrl, fsVars, execLog, scanVars, chatPrompt>>

WriteAIResponse ==
  /\ pc = "writeAIResponse"
  /\ \/ WriteOk(AI_OUTPUT_FOLDER, AI_OUTPUT_FILE_PATH, aiResponse) /\ Return
     \/ MkdirFails(AI_OUTPUT_FOLDER) /\ Fail
     \/ WriteFileFails(AI_OUTPUT_FOLDER) /\ Fail
  /\ UNCHANGED <<envVars, replayUrl, execLog, scanVars, aiVars>>

\* main's last statement
ProcessExit0 ==
  /\ pc = "process.exit(0)"
  /\ pc' = "exited"
  /\ exitCode' = 0
  /\ UNCHANGED <<envVars, completed, replayUrl, fsVars, execLog, scanVars,
                 aiVars>>

\* ------------------------------------------------------ the whole run
\* The process starts with an argument or none (part_000 reads it), and with
\* nothing on disk, or the output folder of an earlier run, with or without
\* its captions file.
NoContent == [p \in FilePaths |-> <<>>]

Init ==
  /\ variant \in Variants
  /\ argv \in (IF variant = "marker" THEN Urls \cup {NoArg} ELSE {NoArg})
  /\ pc = StageOrder(variant)[1]
  /\ exitCode = NotExited
  /\ completed = <<>>
  /\ replayUrl = ""
  /\ \/ fsExists \in {{}, {OUTPUT_FOLDER}} /\ fsContent = NoContent
     \/ /\ fsExists = {OUTPUT_FOLDER, REPLAY_DOWNLOAD_FOLDER,
                       REPLAY_SUBTITLE_FILE_PATH}
        /\ \E c \in FileContents(variant, MaxRunLines) :
             fsContent = [NoContent EXCEPT ![REPLAY_SUBTITLE_FILE_PATH] = c]
  /\ execLog = <<>>
  /\ inputFileLines = <<>>
  /\ currentIndex = 1
  /\ parsedContent = <<>>
  /\ passed34Minutes = FALSE
  /\ startAppending = FALSE
  /\ chatPrompt = <<>>
  /\ aiResponse = <<>>

Next ==
  \/ GetReplayUrl
  \/ GetLatestReplayUrl
  \/ CreateOutputFolder
  \/ DownloadReplayFiles
  \/ ParseRead
  \/ ScanLineMulti
  \/ ScanLineMarker
  \/ ParseWrite
  \/ WriteHumanReadableSubtitleFile
  \/ GenerateAIPrompt
  \/ GetChatPromptFromParsedSubtitles
  \/ CallAIModel
  \/ WriteAIResponse
  \/ ProcessExit0

Spec == Init /\ [][Next]_vars

\* ------------------------------------------- parseSubtitleFile on its own
\* parseSubtitleFile is called on a captions file of at most MaxLines lines,
\* the stages before it having returned.
FirstUrl == CHOOSE u \in Urls : TRUE

InitParse ==
  /\ variant \in Variants
  /\ argv = (IF variant = "marker" THEN FirstUrl ELSE NoArg)
  /\ pc = "parseSubtitleFile"
  /\ exitCode = NotExited
  /\ completed = SubSeq(StageOrder(variant), 1, 3)
  /\ replayUrl = FirstUrl
  /\ fsExists = {OUTPUT_FOLDER, REPLAY_DOWNLOAD_FOLDER,
                 REPLAY_SUBTITLE_FILE_PATH}
  /\ \E c \in FileContents(variant, MaxLines) :
       fsContent = [NoContent EXCEPT ![REPLAY_SUBTITLE_FILE_PATH] = c]
  /\ execLog = <<>>
  /\ inputFileLines = <<>>
  /\ currentIndex = 1
  /\ parsedContent = <<>>
  /\ passed34Minutes = FALSE
  /\ startAppending = FALSE
  /\ chatPrompt = <<>>
  /\ aiResponse = <<>>

NextParse ==
  \/ ParseRead
  \/ ScanLineMulti
  \/ ScanLineMarker
  \/ ParseWrite

SpecParse == InitParse /\ [][NextParse]_vars


\* ------------------------------------------------------------- the claims
\* The line the forEach callback is called with.
CurrentLine == inputFileLines[currentIndex]
\* The line the last callback was called with.
PreviousLine == inputFileLines[currentIndex - 1]
\* The scan is under way or over.
Scanning == pc \in {"forEach", "writeParsed"}
\* A line that is blank after trimming, holds the arrow, or is all digits
\* after trimming.
Excluded(line) ==
  \/ Trim(line) = <<>>
  \/ Includes(line, ARROW)
  \/ IsAllDigits(Trim(line))
\* The step adds text at the end of the transcript.
Appends ==
  /\ Len(parsedContent') > Len(parsedContent)
  /\ SubSeq(parsedContent', 1, Len(parsedContent)) = parsedContent
\* The regular expression of the running variant.
Alternatives ==
  IF variant = "multi" THEN MultiAlternatives ELSE MarkerAlternatives
\* The stage a position belongs to.
StageOf(p) == IF p \in {"forEach", "writeParsed"} THEN "parseSubtitleFile" ELSE p

\* C1: in the marker variant the marker check on the last line does not
\* abort the scan: parseSubtitleFile never takes its error exit while a line
\* of the file is being scanned.
C1_LookaheadSafe ==
  ~ /\ variant = "marker"
    /\ pc = "exited"
    /\ Len(completed) = 3
    /\ inputFileLines # <<>>
    /\ currentIndex <= Len(inputFileLines)

\* The marker variant's step that opens the window.
OpensByMarker ==
  /\ variant = "marker"
  /\ pc = "forEach"
  /\ ~startAppending
  /\ startAppending'

\* C2: in the marker variant the line that opens the window contributes
\* nothing to the transcript.
C2_MarkerLineContributesNothing ==
  [][OpensByMarker => parsedContent' = parsedContent]_vars

\* C2, amended: in the marker variant the line that opens the window is
\* itself the first line appended: the transcript, empty until then, becomes
\* that line's cleaned text and a space, unless the line holds the arrow, in
\* which case the transcript stays empty.
C2_MarkerLineIsFirstAppended ==
  [][OpensByMarker =>
       /\ parsedContent = <<>>
       /\ parsedContent' =
            IF Includes(CurrentLine, ARROW) THEN <<>>
            ELSE ReplaceAll(Trim(CurrentLine), MarkerAlternatives, <<>>)
                   \o SPACE]_vars

\* C2's case: the window has just been opened by a cyan line followed by a
\* blank line, no cyan line came before it, and its text is the transcript.
C2_Witness ==
  /\ variant = "marker"
  /\ pc = "forEach"
  /\ currentIndex > 1
  /\ startAppending
  /\ Includes(PreviousLine, C_CYAN)
  /\ Trim(CurrentLine) = <<>>
  /\ \A j \in 1..(currentIndex - 2) : ~Includes(inputFileLines[j], C_CYAN)
  /\ parsedContent = <<" ", "a", " ">>

\* C3: the transcript holds no markup token.
C3_NoMarkupInTranscript ==
  \A tok \in MarkupTokens : ~Includes(parsedContent, tok)

\* C4: in both variants startAppending only goes from false to true; once it
\* is true every later line that is not blank after trimming, has no arrow
\* and is not all digits is appended, and nothing is appended before the
\* window opens.
C4_WindowMonotone ==
  [][/\ startAppending => startAppending'
     /\ (pc = "forEach" /\ startAppending /\ ~Excluded(CurrentLine)) => Appends
     /\ ~startAppending' => parsedContent' = <<>>]_vars

\* C5: the step that processes a line that is blank after trimming, holds
\* the arrow or is all digits after trimming leaves the transcript unchanged,
\* whether the window is open or not and also when the line opens it.
C5_ExcludedLinesAddNothing ==
  [][(pc = "forEach" /\ Excluded(CurrentLine))
       => parsedContent' = parsedContent]_vars

\* C5's case: in the multi variant a time range, the first line to start
\* with one of the prefixes, has opened the window and added nothing.
C5_Witness ==
  /\ variant = "multi"
  /\ Scanning
  /\ currentIndex > 2
  /\ startAppending
  /\ MultiTrigger(PreviousLine)
  /\ Excluded(PreviousLine)
  /\ ~Excluded(inputFileLines[1])
  /\ \A j \in 1..(currentIndex - 2) : ~MultiTrigger(inputFileLines[j])
  /\ parsedContent = <<>>

\* C6: the fragment appended for a line is the line with its tokens and
\* boilerplate removed and then trimmed, followed by one space.
C6_FragmentTrimmedAfterCleaning ==
  [][(pc = "forEach" /\ parsedContent' # parsedContent) =>
       parsedContent' =
         parsedContent \o Trim(ReplaceAll(CurrentLine, Alternatives, <<>>))
           \o SPACE]_vars

\* C7: the stages run in main's order; the stage that runs is the one after
\* those that have returned; a failure ends the process with code 1 before
\* any later stage; code 0 is given only when every stage has returned, and
\* then the files of the stages are on disk.
C7_StagesInOrder ==
  /\ Len(completed) <= Len(StageOrder(variant))
  /\ completed = SubSeq(StageOrder(variant), 1, Len(completed))
  /\ pc # "exited" =>
       /\ exitCode = NotExited
       /\ StageOf(pc) = StageAfter(Len(completed))
  /\ pc = "exited" =>
       /\ exitCode \in {0, 1}
       /\ exitCode = 0 <=> completed = StageOrder(variant)
  /\ exitCode = 0 =>
       /\ {REPLAY_SUBTITLE_FILE_PATH, PARSED_SUBTITLE_FILE_PATH,
           AI_OUTPUT_FILE_PATH} \subseteq fsExists
       /\ variant = "multi" =>
            {HUMAN_READABLE_SUBTITLE_FILE_PATH, AI_PROMPT_FILE_PATH}
              \subseteq fsExists

\* C7's case: a run that downloaded the captions has ended with code 0.
C7_Witness ==
  /\ pc = "exited"
  /\ exitCode = 0
  /\ execLog # <<>>

\* C8: when the captions file exists as downloadReplayFiles starts, the
\* downloader is not run, the disk is left as it is and the stage returns;
\* the downloader is run only by downloadReplayFiles and only when the file
\* is absent.
C8_CachedCaptionsSkipDownload ==
  [][/\ (pc = "downloadReplayFiles" /\ REPLAY_SUBTITLE_FILE_PATH \in fsExists)
          => /\ execLog' = execLog
             /\ fsExists' = fsExists
             /\ fsContent' = fsContent
             /\ pc' = "parseSubtitleFile"
             /\ exitCode' = NotExited
     /\ execLog' # execLog
          => /\ pc = "downloadReplayFiles"
             /\ REPLAY_SUBTITLE_FILE_PATH \notin fsExists
             /\ execLog' = Append(execLog, replayUrl)]_vars

\* C8's case: downloadReplayFiles has returned with the captions file of an
\* earlier run on disk and the downloader not run.
C8_Witness ==
  /\ pc = "parseSubtitleFile"
  /\ replayUrl \in Urls
  /\ execLog = <<>>
  /\ REPLAY_SUBTITLE_FILE_PATH \in fsExists
  /\ Len(fsContent[REPLAY_SUBTITLE_FILE_PATH]) > 0

\* C9: in the marker variant the window is open only after a line starting
\* with 00:34: has been seen, and nothing is appended before one.
C9_WindowOnlyAfterThreshold ==
  variant = "marker" =>
    /\ startAppending => passed34Minutes
    /\ ~passed34Minutes => parsedContent = <<>>
    /\ passed34Minutes =>
         \E j \in 1..Len(inputFileLines) :
           /\ StartsWith(inputFileLines[j], PREFIX_0034)
           /\ IF pc = "exited" THEN j <= currentIndex ELSE j < currentIndex

\* C9's case: a cyan line followed by a blank line has been scanned before
\* any 00:34: line, and the window is closed.
C9_Witness ==
  /\ variant = "marker"
  /\ pc = "forEach"
  /\ currentIndex > 2
  /\ Includes(inputFileLines[currentIndex - 2], C_CYAN)
  /\ Trim(PreviousLine) = <<>>
  /\ StartsWith(CurrentLine, PREFIX_0034)
  /\ ~passed34Minutes
  /\ ~startAppending

\* The human-readable file, once written.
HumanReadableFile == fsContent[HUMAN_READABLE_SUBTITLE_FILE_PATH]
\* The places of s where sub starts.
Occurrences(s, sub) ==
  {i \in 1..(Len(s) - Len(sub) + 1) : SubSeq(s, i, i + Len(sub) - 1) = sub}

\* C10: the human-readable file is the transcript with line breaks put in
\* and nothing else changed: without its line breaks it is the transcript.
C10_OnlyLineBreaksInserted ==
  HUMAN_READABLE_SUBTITLE_FILE_PATH \in fsExists =>
    SelectSeq(HumanReadableFile, LAMBDA c : c # NL) = parsedContent

\* C10, amended: the human-readable file is the transcript with every space
\* + hyphen replaced by line break + hyphen + space: it holds one line break
\* for each space + hyphen of the transcript, each followed by hyphen +
\* space, and putting space + hyphen back for each line break + hyphen +
\* space gives the transcript.
C10_SpaceHyphenRewritten ==
  HUMAN_READABLE_SUBTITLE_FILE_PATH \in fsExists =>
    /\ Cardinality(Occurrences(HumanReadableFile, <<NL>>))
         = Cardinality(Occurrences(parsedContent, <<" ", "-">>))
    /\ Occurrences(HumanReadableFile, <<NL>>)
         = Occurrences(HumanReadableFile, <<NL, "-", " ">>)
    /\ ReplaceAll(HumanReadableFile, << <<NL, "-", " ">> >>, <<" ", "-">>)
         = parsedContent

\* C10's case: a transcript with a space + hyphen has been written.
C10_Witness ==
  /\ HUMAN_READABLE_SUBTITLE_FILE_PATH \in fsExists
  /\ Includes(parsedContent, <<" ", "-">>)
  /\ Includes(HumanReadableFile, <<NL>>)

=============================================================================
